---- MODULE Spec2Model ----
(***************************************************************************)
(* Riverside park accessibility: the dashboard's data hook, its address    *)
(* search, sidebar, map and search box, and the accessibility pipeline     *)
(* (graph, reachability, isochrone, tract and neighborhood aggregation).   *)
(*                                                                         *)
(* Specifications:                                                         *)
(*   Spec         useAccessibilityData against a backend that may publish  *)
(*                a new output generation while the requests are in flight *)
(*   SearchSpec   App.handleLocationSelect over bounded tract collections  *)
(*   PipelineSpec the batch pipeline, stage by stage                       *)
(*   TractSpec    the Tract Aggregator on a two-park overlay               *)
(*   NeighSpec    the Neighborhood Aggregator, flagging and map outline    *)
(*   LiveSpec     Spec with the fairness of the hook's effect and fetches  *)
(*   SidebarSpec  Sidebar: the Top 5 chart data and the metric             *)
(*   DashboardSpec the dashboard: sidebar, map popups and address search   *)
(*   ColorSpec    Map.getColor, of both Map components, over every score   *)
(*   BoxSpec      SearchBox: debounce timer, geocoding requests, selection *)
(***************************************************************************)
EXTENDS Integers, Sequences, FiniteSets, TLC

VARIABLES
    generation,        \* backend: the output generation currently served
    req,               \* hook: the four fetches, by endpoint
    data,              \* hook: the useState record of useAccessibilityData
    hookpc,            \* hook: "init" | "awaiting" | "done"
    searchedLocation,  \* App: useState(null)
    isSidebarOpen,     \* App: useState(false)
    searchResult,      \* App: useState(null)
    graph,             \* pipeline: the WalkGraph
    entrances,         \* pipeline: park -> set of entrance nodes
    tentative,         \* pipeline: park -> (node -> tentative cost) of its search
    settled,           \* pipeline: park -> nodes visited within budget
    isochrone,         \* pipeline: park -> polygon (a set of cells) or NoPolygon
    tractRes,          \* pipeline: tract -> (cell -> residential area)
    tractScore,        \* pipeline: tract -> accessibility_score
    neighTracts,       \* pipeline: constituent tracts of the neighborhood
    neighScore,        \* pipeline: neigh_accessibility_score
    neighFlag,         \* pipeline: is_underserved
    outline,           \* dashboard: outline colour drawn for the neighborhood
    stage,             \* pipeline: the stage the run is at
    sidebar,           \* Sidebar: what its last render shows
    layer,             \* Map: the feature being drawn, its style and popup
    query,             \* SearchBox: useState('')
    suggestions,       \* SearchBox: useState([])
    loading,           \* SearchBox: useState(false)
    showSuggestions,   \* SearchBox: useState(false)
    timers,            \* SearchBox: the pending setTimeout callbacks
    requests,          \* SearchBox: the geocoding requests, in order of issue
    quiet,             \* time since the query last changed, in ms (capped)
    lastInput          \* the user's last input to the search box

hookVars == <<generation, req, data, hookpc>>
appVars == <<searchedLocation, isSidebarOpen, searchResult>>
pipeVars == <<graph, entrances, tentative, settled, isochrone, tractRes,
              tractScore, neighTracts, neighScore, neighFlag, outline, stage>>
boxVars == <<query, suggestions, loading, showSuggestions, timers, requests,
             quiet, lastInput>>
viewVars == <<sidebar, layer, boxVars>>
vars == <<hookVars, appVars, pipeVars, viewVars>>

(***************************************************************************)
(* JavaScript values                                                       *)
(***************************************************************************)
JSNull == [t |-> "null"]
JSUndefined == [t |-> "undefined"]
NaN == [t |-> "nan"]
\* A number, kept in tenths: Num(495) is 49.5
Num(n) == [t |-> "num", v |-> n]

IsNum(x) == x.t = "num"

\* Math.round: null converts to 0, undefined to NaN, halves round up
MathRound(x) ==
    IF x.t = "null" THEN Num(0)
    ELSE IF x.t = "num" THEN Num(((x.v + 5) \div 10) * 10)
    ELSE NaN

\* x >= 50 with JavaScript's conversions (null is 0, undefined is NaN)
AtLeast50(x) ==
    IF x.t = "num" THEN x.v >= 500 ELSE FALSE

(***************************************************************************)
(* useAccessibilityData                                                    *)
(***************************************************************************)
MaxGen == 2

Endpoints == {"tracts", "parks", "neighborhoods", "stats"}

Pending == [st |-> "pending"]
Idle == [st |-> "idle"]
Rejected == [st |-> "rejected"]
\* A response: its ok flag and, when its body parses, the parsed JSON
Response(ok, body) == [st |-> "resolved", ok |-> ok, body |-> body]
InvalidJson == [t |-> "invalid"]

\* What the backend serves at an endpoint while generation g is published
Artifact(e, g, features) ==
    [t |-> "artifact", endpoint |-> e, run |-> g, features |-> features]

FetchFailedMsg == "Failed to fetch"
BackendMsg == "Failed to fetch data from backend. Ensure main.py is running."
ParseMsg == "Unexpected token in JSON"
NoError == "null"

InitialData ==
    [tracts |-> JSNull, parks |-> JSNull, neighborhoods |-> JSNull,
     stats |-> JSNull, loading |-> TRUE, error |-> NoError]

\* A catch that records the error and leaves the spinner on
CatchKeepLoading(prev, msg) == [prev EXCEPT !.error = msg]

\* catch (err): setData(prev => ({ ...prev, loading: false, error: err.message }))
Catch(prev, msg) == [prev EXCEPT !.loading = FALSE, !.error = msg]

\* A hook that keeps what it parsed before the failing body
FetchDataStorePartial(rq, prev) ==
    IF \E e \in Endpoints : ~rq[e].ok
    THEN Catch(prev, BackendMsg)
    ELSE IF rq["tracts"].body = InvalidJson THEN Catch(prev, ParseMsg)
    ELSE IF rq["parks"].body = InvalidJson
         THEN Catch([prev EXCEPT !.tracts = rq["tracts"].body], ParseMsg)
    ELSE IF rq["neighborhoods"].body = InvalidJson
         THEN Catch([prev EXCEPT !.tracts = rq["tracts"].body,
                                 !.parks = rq["parks"].body], ParseMsg)
    ELSE IF rq["stats"].body = InvalidJson
         THEN Catch([prev EXCEPT !.tracts = rq["tracts"].body,
                                 !.parks = rq["parks"].body,
                                 !.neighborhoods = rq["neighborhoods"].body], ParseMsg)
    ELSE [tracts |-> rq["tracts"].body, parks |-> rq["parks"].body,
          neighborhoods |-> rq["neighborhoods"].body, stats |-> rq["stats"].body,
          loading |-> FALSE, error |-> NoError]

\* fetchData after Promise.all resolved: the ok check, the four json() calls
\* in order inside the object literal, then the single setData; any throw
\* goes to the catch before setData is called
FetchDataAfterAll(rq, prev) ==
    IF \E e \in Endpoints : ~rq[e].ok
    THEN Catch(prev, BackendMsg)
    ELSE IF \E e \in Endpoints : rq[e].body = InvalidJson
    THEN Catch(prev, ParseMsg)
    ELSE [tracts |-> rq["tracts"].body, parks |-> rq["parks"].body,
          neighborhoods |-> rq["neighborhoods"].body, stats |-> rq["stats"].body,
          loading |-> FALSE, error |-> NoError]

\* useEffect(..., []): the four fetches are issued once, after the first render
Mount ==
    /\ hookpc = "init"
    /\ hookpc' = "awaiting"
    /\ req' = [e \in Endpoints |-> Pending]
    /\ UNCHANGED <<generation, data>>

\* The backend republishes the outputs of a new pipeline run
Publish ==
    /\ generation < MaxGen
    /\ generation' = generation + 1
    /\ UNCHANGED <<req, data, hookpc>>

\* fetch(e) resolves with a response served from the current generation
Resolve(e) ==
    /\ req[e] = Pending
    /\ \E ok \in BOOLEAN, valid \in BOOLEAN :
          req' = [req EXCEPT ![e] =
                     Response(ok, IF ok /\ valid
                                  THEN Artifact(e, generation, <<>>)
                                  ELSE InvalidJson)]
    /\ UNCHANGED <<generation, data, hookpc>>

\* fetch(e) rejects: Promise.all rejects with the first rejection and the
\* catch runs; later rejections find the promise already settled
Reject(e) ==
    /\ req[e] = Pending
    /\ req' = [req EXCEPT ![e] = Rejected]
    /\ IF hookpc = "awaiting"
       THEN /\ data' = Catch(data, FetchFailedMsg)
            /\ hookpc' = "done"
       ELSE UNCHANGED <<data, hookpc>>
    /\ UNCHANGED generation

\* Promise.all resolved: the rest of fetchData runs
Continue ==
    /\ hookpc = "awaiting"
    /\ \A e \in Endpoints : req[e].st = "resolved"
    /\ data' = FetchDataAfterAll(req, data)
    /\ hookpc' = "done"
    /\ UNCHANGED <<generation, req>>

\* App: which of its three returns renders
Rendered ==
    IF data.loading THEN "spinner"
    ELSE IF data.error # NoError THEN "error"
    ELSE "dashboard"

(***************************************************************************)
(* App.handleLocationSelect                                                *)
(***************************************************************************)
NumPoints == 2
MaxTracts == 2

\* Places an address can geocode to
Points == 1 .. NumPoints
Addresses == {"12 Elm St, Riverside", "5160 Monte Vista Dr, Riverside"}
Locations == [lat : Points, lng : {0}, address : Addresses]

\* accessibility_score values of a tract feature, in tenths
Scores == {JSNull, JSUndefined, Num(494), Num(495), Num(1000)}

\* A tract feature: the points its polygon contains, and its score
Features == [polygon : SUBSET Points, accessibility_score : Scores]
FeatureLists == UNION {[1 .. n -> Features] : n \in 0 .. MaxTracts}

OutsideMsg == "Location is outside Riverside County analysis area."

\* turf.booleanPointInPolygon(turf.point([loc.lng, loc.lat]), tract)
PointInPolygon(loc, tract) == loc.lat \in tract.polygon

\* A loop without its break: the last containing feature wins
RECURSIVE FindLastFrom(_, _, _, _)
FindLastFrom(features, loc, i, found) ==
    IF i > Len(features) THEN found
    ELSE IF PointInPolygon(loc, features[i])
         THEN FindLastFrom(features, loc, i + 1, i)
         ELSE FindLastFrom(features, loc, i + 1, found)

FindLast(features, loc) == FindLastFrom(features, loc, 1, 0)

\* for (const tract of tracts.features) { if (...) { foundTract = tract; break; } }
\* as the index of foundTract, 0 for null
RECURSIVE FindTractFrom(_, _, _)
FindTractFrom(features, loc, i) ==
    IF i > Len(features) THEN 0
    ELSE IF PointInPolygon(loc, features[i]) THEN i
    ELSE FindTractFrom(features, loc, i + 1)

FindTract(features, loc) == FindTractFrom(features, loc, 1)

\* The object handed to setSearchResult
ResultOf(features, loc) ==
    LET i == FindTract(features, loc) IN
    IF i # 0
    THEN [score |-> MathRound(features[i].accessibility_score),
          isWalkable |-> AtLeast50(features[i].accessibility_score),
          address |-> loc.address]
    ELSE [error |-> OutsideMsg, address |-> loc.address]

\* The hook's fetches all succeed at once, /tracts carrying `features`
LoadData ==
    /\ hookpc = "init"
    /\ \E features \in FeatureLists :
          /\ req' = [e \in Endpoints |->
                        Response(TRUE, Artifact(e, generation,
                                     IF e = "tracts" THEN features ELSE <<>>))]
          /\ data' = FetchDataAfterAll(req', data)
    /\ hookpc' = "done"
    /\ UNCHANGED generation

\* SearchBox calls onLocationSelect; SearchBox exists only in the dashboard render
HandleLocationSelect(loc) ==
    /\ Rendered = "dashboard"
    /\ searchedLocation' = loc
    /\ isSidebarOpen' = FALSE
    /\ IF data.tracts = JSNull
       THEN UNCHANGED searchResult
       ELSE searchResult' = ResultOf(data.tracts.features, loc)

\* The X button of the result overlay
ClearSearch ==
    /\ Rendered = "dashboard"
    /\ searchResult # JSNull
    /\ searchResult' = JSNull
    /\ searchedLocation' = JSNull
    /\ UNCHANGED isSidebarOpen

(***************************************************************************)
(* The accessibility pipeline                                              *)
(***************************************************************************)
NumNodes == 3
TimeBudget == 900
MinHullPoints == 3
UnderservedThreshold == 50
MaxArea == 4
NumNeighTracts == 2

Nodes == 1 .. NumNodes
Parks == {"A", "B"}
\* Traversal costs in seconds (segment length / nominal walking speed)
EdgeCosts == {300, 600}

\* Segments of the raw street network: a ring through the nodes
Segments == {{i, i + 1} : i \in 1 .. NumNodes - 1} \cup {{1, NumNodes}}
RawNetworks == UNION {[E -> EdgeCosts] : E \in SUBSET {e \in Segments : Cardinality(e) = 2}}
\* Study boundaries, by the nodes they contain
Boundaries == {1 .. k : k \in 0 .. NumNodes}

NoGraph == [built |-> FALSE, nodes |-> {}, cost |-> <<>>]

\* The walk graph clipped to the boundary; walking edges are bidirectional
Clip(raw, boundary) ==
    [built |-> TRUE,
     nodes |-> Nodes \cap boundary,
     cost |-> [e \in {x \in DOMAIN raw : x \subseteq boundary} |-> raw[e]]]

\* A builder that treats an empty clipped network as a fatal input error
GraphBuilderEmptyFatal(present, raw, boundary) ==
    IF ~present THEN [ok |-> FALSE, graph |-> NoGraph]
    ELSE [ok |-> Clip(raw, boundary).nodes # {}, graph |-> Clip(raw, boundary)]

\* Graph Builder: a missing or corrupt dataset fails the run; an empty
\* network after clipping is returned as the empty graph
GraphBuilder(present, raw, boundary) ==
    IF ~present THEN [ok |-> FALSE, graph |-> NoGraph]
    ELSE [ok |-> TRUE, graph |-> Clip(raw, boundary)]

Neighbors(g, n) == {u \in g.nodes \ {n} : {n, u} \in DOMAIN g.cost}

\* A cutoff that drops a node reached at exactly the budget
WithinCutoffExclusive(c) == c < TimeBudget

\* A frontier branch ends once its cost exceeds the budget
WithinCutoff(c) == c <= TimeBudget

\* One visited set shared by the searches of all parks
VisitedShared(p) == UNION {settled[q] : q \in Parks}

\* The nodes the search of park p has visited
Visited(p) == settled[p]

\* Nodes seen by park p's search and not yet visited
Frontier(p) == DOMAIN tentative[p] \ Visited(p)

SearchDone(p) == Frontier(p) = {}

\* Tentative costs after visiting n: each unvisited neighbour within the
\* cutoff gets the smaller of its old cost and the cost through n
Relax(g, t, n, seen) ==
    LET through(u) == t[n] + g.cost[{n, u}]
        open == {u \in Neighbors(g, n) \ seen : WithinCutoff(through(u))}
    IN  [u \in DOMAIN t \cup open |->
            IF u \in open /\ (u \notin DOMAIN t \/ through(u) < t[u])
            THEN through(u)
            ELSE t[u]]

RECURSIVE SumOver(_, _)
SumOver(f, S) ==
    IF S = {} THEN 0
    ELSE LET x == CHOOSE y \in S : TRUE IN f[x] + SumOver(f, S \ {x})

RECURSIVE Gcd(_, _)
Gcd(a, b) == IF b = 0 THEN a ELSE Gcd(b, a % b)

NotApplicable == [t |-> "na"]
\* The score n/d in lowest terms (d > 0, n >= 0)
Rat(n, d) == [t |-> "score", num |-> n \div Gcd(n, d), den |-> d \div Gcd(n, d)]
Defined(s) == s.t = "score"
Clamp(s) == IF s.num > 100 * s.den THEN Rat(100, 1) ELSE s

\* Cells of the plane: cell n holds node n, cell 0 holds no node
Cells == {0} \cup Nodes
NoPolygon == [valid |-> FALSE, cells |-> {}]

\* A reconstructor that makes a shape out of one or two points
ReconstructDegenerate(points) ==
    [valid |-> points # {}, cells |-> points]

\* Isochrone Reconstructor: the hull of the reachable points, or no polygon
\* below three distinct points
Reconstruct(points) ==
    IF Cardinality(points) < MinHullPoints
    THEN NoPolygon
    ELSE [valid |-> TRUE, cells |-> points]

\* Coverage summed park by park
CoveredAreaPerPark(area, iso) ==
    LET part(p) == SumOver(area, DOMAIN area \cap iso[p].cells)
        RECURSIVE total(_)
        total(P) == IF P = {} THEN 0
                    ELSE LET p == CHOOSE q \in P : TRUE IN part(p) + total(P \ {p})
    IN  total({p \in DOMAIN iso : iso[p].valid})

\* Residential area inside the union of the emitted isochrone polygons
CoveredArea(area, iso) ==
    LET union == UNION {iso[p].cells : p \in {q \in DOMAIN iso : iso[q].valid}}
    IN  SumOver(area, DOMAIN area \cap union)

\* Tract Aggregator: 100 x covered / residential, clamped; the sentinel for
\* a tract without residential area
TractAccessibility(area, iso) ==
    LET residential == SumOver(area, DOMAIN area) IN
    IF residential = 0 THEN NotApplicable
    ELSE Clamp(Rat(100 * CoveredArea(area, iso), residential))

ResidentialArea(t) == SumOver(tractRes[t], DOMAIN tractRes[t])

\* A common denominator of the scores of the tracts in D
RECURSIVE DenLcm(_, _)
DenLcm(score, D) ==
    IF D = {} THEN 1
    ELSE LET x == CHOOSE y \in D : TRUE
             r == DenLcm(score, D \ {x})
         IN  (r * score[x].den) \div Gcd(r, score[x].den)

\* The plain mean of the scored tracts, every tract weighing the same
NeighMean(score, res, members) ==
    LET D == {t \in members : Defined(score[t])}
        L == DenLcm(score, D)
        total == SumOver([t \in D |-> score[t].num * (L \div score[t].den)], D)
    IN  IF D = {} THEN NotApplicable
        ELSE Rat(total, L * Cardinality(D))

\* Neighborhood Aggregator: the residential-area-weighted average of the
\* constituent tracts that have a score
NeighAccessibility(score, res, members) ==
    LET D == {t \in members : Defined(score[t])}
        L == DenLcm(score, D)
        weighted == SumOver([t \in D |-> score[t].num * (L \div score[t].den) * res[t]], D)
        weight == SumOver(res, D)
    IN  IF D = {} \/ weight = 0 THEN NotApplicable
        ELSE Rat(weighted, L * weight)

\* Flagging rule: a score below the threshold
Underserved(s) ==
    Defined(s) /\ s.num < UnderservedThreshold * s.den

\* An outline drawn from the score instead of the flag
NeighStyleByScore(feature) ==
    [color |-> IF feature.properties.neigh_accessibility_score.t = "num"
                  /\ MathRound(feature.properties.neigh_accessibility_score).v < 500
               THEN "#ef4444" ELSE "#334155",
     weight |-> IF feature.properties.is_underserved = TRUE THEN 3 ELSE 1]

\* Map.neighStyle: the outline of a neighborhood feature
NeighStyle(feature) ==
    [color |-> IF feature.properties.is_underserved = TRUE
               THEN "#ef4444" ELSE "#334155",
     weight |-> IF feature.properties.is_underserved = TRUE THEN 3 ELSE 1]

\* The score as written to the output feature, in tenths (floats keep more)
ToJS(s) == IF Defined(s) THEN Num((10 * s.num) \div s.den) ELSE JSNull

NeighFeature ==
    [properties |-> [neigh_accessibility_score |-> ToJS(neighScore),
                     is_underserved |-> neighFlag]]

Tracts == {"T1", "T2"}
TractCells(t) == IF t = "T1" THEN {0, 1} ELSE Nodes \ {1}

BuildGraph ==
    /\ stage = "start"
    /\ \E present \in BOOLEAN, raw \in RawNetworks, boundary \in Boundaries :
          LET built == GraphBuilder(present, raw, boundary) IN
          /\ graph' = built.graph
          /\ stage' = IF built.ok THEN "sample" ELSE "aborted"
    /\ UNCHANGED <<entrances, tentative, settled, isochrone, tractRes, tractScore,
                   neighTracts, neighScore, neighFlag, outline>>

\* Park Entrance Sampler, then the seeding of each park's search at cost 0
SampleEntrances ==
    /\ stage = "sample"
    /\ \E ents \in [Parks -> SUBSET graph.nodes] :
          /\ entrances' = ents
          /\ tentative' = [p \in Parks |-> [n \in ents[p] |-> 0]]
    /\ settled' = [p \in Parks |-> {}]
    /\ stage' = "reach"
    /\ UNCHANGED <<graph, isochrone, tractRes, tractScore,
                   neighTracts, neighScore, neighFlag, outline>>

\* Reachability Engine: the worker of park p visits a cheapest frontier node
Visit(p) ==
    /\ stage = "reach"
    /\ \E n \in Frontier(p) :
          /\ \A m \in Frontier(p) : tentative[p][n] <= tentative[p][m]
          /\ settled' = [settled EXCEPT ![p] = @ \cup {n}]
          /\ tentative' = [tentative EXCEPT
                              ![p] = Relax(graph, @, n, Visited(p) \cup {n})]
    /\ UNCHANGED <<graph, entrances, isochrone, tractRes, tractScore,
                   neighTracts, neighScore, neighFlag, outline, stage>>

\* Isochrone Reconstructor, once every park's search has ended
ReconstructAll ==
    /\ stage = "reach"
    /\ \A p \in Parks : SearchDone(p)
    /\ isochrone' = [p \in Parks |-> Reconstruct(settled[p])]
    /\ stage' = "isochrones"
    /\ UNCHANGED <<graph, entrances, tentative, settled, tractRes, tractScore,
                   neighTracts, neighScore, neighFlag, outline>>

\* The tract and neighborhood datasets of the run
LoadTracts ==
    /\ stage = "isochrones"
    /\ \E density \in [Tracts -> {0, 1}] :
          tractRes' = [t \in Tracts |-> [c \in TractCells(t) |-> density[t]]]
    /\ neighTracts' = Tracts
    /\ stage' = "overlay"
    /\ UNCHANGED <<graph, entrances, tentative, settled, isochrone, tractScore,
                   neighScore, neighFlag, outline>>

\* Tract Aggregator over every tract
ScoreTracts ==
    /\ stage = "overlay"
    /\ tractScore' = [t \in DOMAIN tractRes |-> TractAccessibility(tractRes[t], isochrone)]
    /\ stage' = "scored"
    /\ UNCHANGED <<graph, entrances, tentative, settled, isochrone, tractRes,
                   neighTracts, neighScore, neighFlag, outline>>

\* Neighborhood Aggregator
Aggregate ==
    /\ stage = "scored"
    /\ neighScore' = NeighAccessibility(tractScore,
                         [t \in DOMAIN tractRes |-> ResidentialArea(t)], neighTracts)
    /\ stage' = "aggregated"
    /\ UNCHANGED <<graph, entrances, tentative, settled, isochrone, tractRes,
                   tractScore, neighTracts, neighFlag, outline>>

\* Underserved flagging; the outputs are then final
FlagUnderserved ==
    /\ stage = "aggregated"
    /\ neighFlag' = Underserved(neighScore)
    /\ stage' = "flagged"
    /\ UNCHANGED <<graph, entrances, tentative, settled, isochrone, tractRes,
                   tractScore, neighTracts, neighScore, outline>>

\* The dashboard draws the neighborhood layer
RenderOutline ==
    /\ stage = "flagged"
    /\ outline' = NeighStyle(NeighFeature).color
    /\ stage' = "rendered"
    /\ UNCHANGED <<graph, entrances, tentative, settled, isochrone, tractRes,
                   tractScore, neighTracts, neighScore, neighFlag>>

\* Tract Aggregator input: one tract cut by the isochrones of two parks into
\* the parts inside neither, one, or both; each part has a residential area
Regions == SUBSET Parks

LoadOverlay ==
    /\ stage = "tract_input"
    /\ \E area \in [Regions -> 0 .. MaxArea], emitted \in [Parks -> BOOLEAN] :
          /\ tractRes' = [t \in {"T1"} |-> area]
          /\ isochrone' = [p \in Parks |->
                              IF emitted[p]
                              THEN [valid |-> TRUE, cells |-> {r \in Regions : p \in r}]
                              ELSE NoPolygon]
    /\ stage' = "overlay"
    /\ UNCHANGED <<graph, entrances, tentative, settled, tractScore,
                   neighTracts, neighScore, neighFlag, outline>>

\* Neighborhood Aggregator input: scored tracts and the constituents
TractScoreValues == {Rat(0, 1), Rat(40, 1), Rat(498, 10), Rat(80, 1), Rat(100, 1)}
TractRecords ==
    {[score |-> NotApplicable, res |-> 0]}
        \cup [score : TractScoreValues, res : {1, 3}]

LoadNeighborhood ==
    /\ stage = "neigh_input"
    /\ \E tr \in [1 .. NumNeighTracts -> TractRecords],
          members \in SUBSET (1 .. NumNeighTracts) :
          /\ tractScore' = [t \in 1 .. NumNeighTracts |-> tr[t].score]
          /\ tractRes' = [t \in 1 .. NumNeighTracts |-> [c \in {0} |-> tr[t].res]]
          /\ neighTracts' = members
    /\ stage' = "scored"
    /\ UNCHANGED <<graph, entrances, tentative, settled, isochrone,
                   neighScore, neighFlag, outline>>

(***************************************************************************)
(* Sidebar                                                                 *)
(***************************************************************************)
MaxNeigh == 6
ChartSize == 5

Str(s) == [t |-> "str", v |-> s]
Placeholder == Str("...")

\* JavaScript truthiness of a primitive; objects are truthy
Truthy(x) ==
    CASE x.t = "num" -> x.v # 0
      [] x.t = "str" -> x.v # ""
      [] x.t \in {"null", "undefined", "nan"} -> FALSE
      [] OTHER -> TRUE

\* a || b
Or(a, b) == IF Truthy(a) THEN a ELSE b

\* o?.f
OptionalField(o, f) ==
    IF o.t \in {"null", "undefined"} THEN JSUndefined
    ELSE IF f \in DOMAIN o THEN o[f]
    ELSE JSUndefined

\* neigh_accessibility_score values of a neighborhood feature, in tenths
NeighScores == {JSNull, Num(494), Num(495)}

NeighborhoodFeature(name, s) ==
    [properties |-> [neighborhood_name |-> name,
                     neigh_accessibility_score |-> s,
                     is_underserved |-> IsNum(s) /\ s.v < 10 * UnderservedThreshold]]

\* Neighborhood collections; a feature is named by its place in the file
NeighLists ==
    UNION {{[i \in 1 .. n |-> NeighborhoodFeature(i, sc[i])] : sc \in [1 .. n -> NeighScores]}
              : n \in 0 .. MaxNeigh}

\* The summary statistics record of a run over these neighborhoods
StatsRecord(g, features) ==
    [t |-> "artifact", endpoint |-> "stats", run |-> g,
     total_neighborhoods |->
        Num(10 * Cardinality({i \in 1 .. Len(features) :
                 IsNum(features[i].properties.neigh_accessibility_score)}))]

\* f => ({ name: ..., score: Math.round(...) })
ChartEntry(f) ==
    [name |-> f.properties.neighborhood_name,
     score |-> MathRound(f.properties.neigh_accessibility_score)]

\* (a, b) => b.score - a.score; sort reads a NaN result as 0
CompareScores(a, b) ==
    IF IsNum(a.score) /\ IsNum(b.score) THEN b.score.v - a.score.v ELSE 0

\* Array.prototype.sort with CompareScores: stable, by insertion
RECURSIVE Sort(_)
Sort(s) ==
    IF s = <<>> THEN <<>>
    ELSE LET rest == Sort(SubSeq(s, 1, Len(s) - 1))
             x == s[Len(s)]
             k == Cardinality({i \in 1 .. Len(rest) : CompareScores(rest[i], x) <= 0})
         IN  SubSeq(rest, 1, k) \o <<x>> \o SubSeq(rest, k + 1, Len(rest))

\* Array.prototype.slice(from, to), 0 <= from <= to
Slice(s, from, to) ==
    SubSeq(s, from + 1, IF to < Len(s) THEN to ELSE Len(s))

\* A chart that cuts the list to five before sorting it
ChartDataSliceFirst(neighborhoods) ==
    IF neighborhoods.t \in {"null", "undefined"} THEN <<>>
    ELSE Sort(Slice([i \in 1 .. Len(neighborhoods.features) |->
                        ChartEntry(neighborhoods.features[i])], 0, ChartSize))

\* Sidebar.chartData: neighborhoods?.features.map(..).sort(..).slice(0, 5) || []
ChartData(neighborhoods) ==
    IF neighborhoods.t \in {"null", "undefined"} THEN <<>>
    ELSE Slice(Sort([i \in 1 .. Len(neighborhoods.features) |->
                        ChartEntry(neighborhoods.features[i])]), 0, ChartSize)

\* {stats?.total_neighborhoods || '...'}
Metric(stats) == Or(OptionalField(stats, "total_neighborhoods"), Placeholder)

Unrendered == [rendered |-> FALSE]

\* The hook's fetches all succeed at once: the backend serves either one
\* tract or a neighborhood collection with its stats record, or has no
\* neighborhood outputs and answers null
DashboardContents ==
    {[tracts |-> <<f>>, neighborhoods |-> <<>>, outputs |-> TRUE] : f \in Features}
        \cup {[tracts |-> <<>>, neighborhoods |-> ns, outputs |-> TRUE] : ns \in NeighLists}
        \cup {[tracts |-> <<>>, neighborhoods |-> <<>>, outputs |-> FALSE]}

LoadDashboard ==
    /\ hookpc = "init"
    /\ \E c \in DashboardContents :
          /\ req' = [e \in Endpoints |->
                        Response(TRUE,
                            CASE e = "tracts" -> Artifact(e, generation, c.tracts)
                              [] e = "parks" -> Artifact(e, generation, <<>>)
                              [] e = "neighborhoods" ->
                                    IF c.outputs
                                    THEN Artifact(e, generation, c.neighborhoods)
                                    ELSE JSNull
                              [] e = "stats" ->
                                    IF c.outputs
                                    THEN StatsRecord(generation, c.neighborhoods)
                                    ELSE JSNull)]
          /\ data' = FetchDataAfterAll(req', data)
    /\ hookpc' = "done"
    /\ UNCHANGED generation

\* Sidebar renders with the stats and neighborhoods props of the dashboard
RenderSidebar ==
    /\ Rendered = "dashboard"
    /\ sidebar' = [rendered |-> TRUE,
                   chartData |-> ChartData(data.neighborhoods),
                   metric |-> Metric(data.stats)]
    /\ UNCHANGED layer

(***************************************************************************)
(* Map                                                                     *)
(***************************************************************************)
NoData == "#dddddd"
Darkest == "#006837"

\* limits in tenths, as the scores
COLOR_RAMP ==
    <<[limit |-> 200, color |-> "#ffffcc"],
      [limit |-> 400, color |-> "#c2e699"],
      [limit |-> 600, color |-> "#78c679"],
      [limit |-> 800, color |-> "#31a354"],
      [limit |-> 1000, color |-> Darkest]>>

\* score < limit; every comparison with NaN is false
LessThan(score, limit) == IF IsNum(score) THEN score.v < limit ELSE FALSE

\* for (const stop of COLOR_RAMP) { if (score < stop.limit) return stop.color; }
\* return '#006837';
RECURSIVE ScanRamp(_, _, _)
ScanRamp(ramp, score, i) ==
    IF i > Len(ramp) THEN Darkest
    ELSE IF LessThan(score, ramp[i].limit) THEN ramp[i].color
    ELSE ScanRamp(ramp, score, i + 1)

\* A ramp whose stops take their own limit
RECURSIVE ScanRampInclusive(_, _, _)
ScanRampInclusive(ramp, score, i) ==
    IF i > Len(ramp) THEN Darkest
    ELSE IF IsNum(score) /\ score.v <= ramp[i].limit THEN ramp[i].color
    ELSE ScanRampInclusive(ramp, score, i + 1)

getColorInclusive(score) ==
    IF score.t \in {"null", "undefined"} THEN NoData
    ELSE ScanRampInclusive(COLOR_RAMP, score, 1)

\* Map.getColor
getColor(score) ==
    IF score.t \in {"null", "undefined"} THEN NoData
    ELSE ScanRamp(COLOR_RAMP, score, 1)

\* The ramp and getColor of the earlier Map component
LegacyColorRamp ==
    <<[limit |-> 200, color |-> "#ffffcc"],
      [limit |-> 400, color |-> "#c2e699"],
      [limit |-> 600, color |-> "#78c679"],
      [limit |-> 800, color |-> "#31a354"],
      [limit |-> 1000, color |-> "#006837"]>>

LegacyGetColor(score) ==
    IF score.t \in {"null", "undefined"} THEN "#dddddd"
    ELSE ScanRamp(LegacyColorRamp, score, 1)

\* The legend of the dashboard: label "lo - hi" and colour, top to bottom
Legend ==
    <<[lo |-> 0, hi |-> 20, color |-> "#ffffcc"],
      [lo |-> 20, hi |-> 40, color |-> "#c2e699"],
      [lo |-> 40, hi |-> 60, color |-> "#78c679"],
      [lo |-> 60, hi |-> 80, color |-> "#31a354"],
      [lo |-> 80, hi |-> 100, color |-> "#006837"]>>

MaxScore == 100

\* Scores a feature can carry: null, undefined, and 0 to 100 in tenths
StyleInputs == {JSNull, JSUndefined} \cup {Num(n) : n \in 0 .. 10 * MaxScore}

\* Map.tractStyle / neighStyle: the fill of a feature with this score
StyleFeature(score) ==
    /\ layer' = [kind |-> "styled", score |-> score, fillColor |-> getColor(score)]
    /\ UNCHANGED sidebar

\* The earlier Map component styles the same feature
LegacyStyleFeature ==
    /\ layer.kind = "styled"
    /\ layer' = [kind |-> "both", score |-> layer.score, fillColor |-> layer.fillColor,
                 legacyFill |-> LegacyGetColor(layer.score)]
    /\ UNCHANGED sidebar

\* Map.onEachTract: the score the popup prints before "/ 100"
OnEachTract(feature) ==
    [title |-> "Census Tract", score |-> MathRound(feature.accessibility_score)]

\* Map.onEachNeighborhood
OnEachNeighborhood(feature) ==
    [title |-> feature.properties.neighborhood_name,
     score |-> MathRound(feature.properties.neigh_accessibility_score)]

NoLayer == [kind |-> "none"]

\* <GeoJSON data={tracts} style={tractStyle} onEachFeature={onEachTract} />,
\* for the i-th feature
DrawTract(i) ==
    /\ Rendered = "dashboard"
    /\ data.tracts # JSNull
    /\ i \in 1 .. Len(data.tracts.features)
    /\ LET f == data.tracts.features[i] IN
       layer' = [kind |-> "tract", score |-> f.accessibility_score,
                 fillColor |-> getColor(f.accessibility_score),
                 popup |-> OnEachTract(f)]
    /\ UNCHANGED sidebar

\* <GeoJSON data={neighborhoods} style={neighStyle} onEachFeature={onEachNeighborhood} />
DrawNeighborhood(i) ==
    /\ Rendered = "dashboard"
    /\ data.neighborhoods # JSNull
    /\ i \in 1 .. Len(data.neighborhoods.features)
    /\ LET f == data.neighborhoods.features[i] IN
       layer' = [kind |-> "neighborhood",
                 score |-> f.properties.neigh_accessibility_score,
                 fillColor |-> getColor(f.properties.neigh_accessibility_score),
                 outline |-> NeighStyle(f),
                 popup |-> OnEachNeighborhood(f)]
    /\ UNCHANGED sidebar

(***************************************************************************)
(* SearchBox                                                               *)
(***************************************************************************)
MaxRequests == 2
MaxQuietTicks == 2
DebounceMs == 500
TickMs == 250
MinQueryLength == 3

\* What the user types, and the display name of a geocoded place
Texts == {"", "riv", "rive", "Riverside, CA"}

\* String.prototype.length
Length(text) ==
    CASE text = "" -> 0
      [] text = "riv" -> 3
      [] text = "rive" -> 4
      [] text = "Riverside, CA" -> 13

\* parseFloat of a coordinate string
ParseFloat(str) ==
    CASE str = "0" -> 0
      [] str = "1" -> 1
      [] str = "2" -> 2

\* The body Nominatim answers a search for this text with
Geocode(text) ==
    CASE text = "rive" ->
            <<[place_id |-> 101, display_name |-> "Riverside, CA", lat |-> "1", lon |-> "0"]>>
      [] text = "Riverside, CA" ->
            <<[place_id |-> 202, display_name |-> "Riverside, CA", lat |-> "2", lon |-> "0"]>>
      [] OTHER -> <<>>

\* The tract the dashboard holds while the search box is used
BoxTracts == <<[polygon |-> {1}, accessibility_score |-> Num(495)]>>

\* An effect that arms its timer without clearing the one before
DebounceEffectNoCleanup(text, pending) ==
    pending \cup {[text |-> text, left |-> DebounceMs]}

\* The debounce effect on a change of query: the cleanup of the previous run
\* clears its timeout, then setTimeout(..., 500) captures the new query
DebounceEffect(text, pending) ==
    {[text |-> text, left |-> DebounceMs]}

ListVisible == showSuggestions /\ Len(suggestions) > 0

\* onChange: setQuery(e.target.value), then the effect of the new render
SetQuery(text) ==
    /\ text # query
    /\ query' = text
    /\ timers' = DebounceEffect(text, timers)
    /\ quiet' = 0
    /\ lastInput' = "edit"
    /\ UNCHANGED <<suggestions, loading, showSuggestions, requests>>

\* The X button, rendered while query is not empty:
\* setQuery(''); setSuggestions([])
ClearClick ==
    /\ query # ""
    /\ query' = ""
    /\ suggestions' = <<>>
    /\ timers' = DebounceEffect("", timers)
    /\ quiet' = 0
    /\ lastInput' = "clear"
    /\ UNCHANGED <<loading, showSuggestions, requests>>

\* onFocus: query.length > 3 && setShowSuggestions(true)
Focus ==
    /\ showSuggestions' = IF Length(query) > MinQueryLength THEN TRUE ELSE showSuggestions
    /\ lastInput' = "focus"
    /\ UNCHANGED <<query, suggestions, loading, timers, requests, quiet>>

\* handleClickOutside: a mousedown outside the container
ClickOutside ==
    /\ showSuggestions' = FALSE
    /\ UNCHANGED <<query, suggestions, loading, timers, requests, quiet, lastInput>>

\* TickMs of time pass; a timeout may run late, never early
Tick ==
    /\ timers' = {[t EXCEPT !.left = IF @ > TickMs THEN @ - TickMs ELSE 0] : t \in timers}
    /\ quiet' = IF quiet + TickMs < MaxQuietTicks * TickMs
                THEN quiet + TickMs ELSE MaxQuietTicks * TickMs
    /\ UNCHANGED <<query, suggestions, loading, showSuggestions, requests, lastInput>>

\* The timeout callback: fetchSuggestions(query) up to its first await, or
\* setSuggestions([])
TimerFire(t) ==
    /\ t \in timers
    /\ t.left = 0
    /\ timers' = timers \ {t}
    /\ IF Length(t.text) > MinQueryLength
       THEN /\ Len(requests) < MaxRequests
            /\ loading' = TRUE
            /\ requests' = Append(requests, [text |-> t.text, st |-> "pending"])
            /\ UNCHANGED suggestions
       ELSE /\ suggestions' = <<>>
            /\ UNCHANGED <<loading, requests>>
    /\ UNCHANGED <<query, showSuggestions, quiet, lastInput>>

\* The response of request i arrives and parses: setSuggestions(data);
\* setShowSuggestions(true); finally setLoading(false)
Respond(i) ==
    /\ i \in 1 .. Len(requests)
    /\ requests[i].st = "pending"
    /\ requests' = [requests EXCEPT ![i].st = "done"]
    /\ suggestions' = Geocode(requests[i].text)
    /\ showSuggestions' = TRUE
    /\ loading' = FALSE
    /\ UNCHANGED <<query, timers, quiet, lastInput>>

\* fetch or json() of request i throws: console.error; finally setLoading(false)
Fail(i) ==
    /\ i \in 1 .. Len(requests)
    /\ requests[i].st = "pending"
    /\ requests' = [requests EXCEPT ![i].st = "failed"]
    /\ loading' = FALSE
    /\ UNCHANGED <<query, suggestions, showSuggestions, timers, quiet, lastInput>>

\* handleSelect(item) on a click in the visible list; the effect runs when
\* setQuery changed the query
HandleSelect(k) ==
    /\ ListVisible
    /\ k \in 1 .. Len(suggestions)
    /\ LET item == suggestions[k] IN
       /\ query' = item.display_name
       /\ IF item.display_name # query
          THEN /\ timers' = DebounceEffect(item.display_name, timers)
               /\ quiet' = 0
          ELSE UNCHANGED <<timers, quiet>>
       /\ showSuggestions' = FALSE
       /\ HandleLocationSelect([lat |-> ParseFloat(item.lat),
                                lng |-> ParseFloat(item.lon),
                                address |-> item.display_name])
    /\ lastInput' = "select"
    /\ UNCHANGED <<suggestions, loading, requests>>

BoxIdle ==
    /\ query = ""
    /\ suggestions = <<>>
    /\ loading = FALSE
    /\ showSuggestions = FALSE
    /\ timers = {}
    /\ requests = <<>>
    /\ quiet = 0
    /\ lastInput = "none"

\* SearchBox after its first render: the effect has armed the timer for ''
BoxMounted ==
    /\ query = ""
    /\ suggestions = <<>>
    /\ loading = FALSE
    /\ showSuggestions = FALSE
    /\ timers = DebounceEffect("", {})
    /\ requests = <<>>
    /\ quiet = 0
    /\ lastInput = "none"

ViewIdle ==
    /\ sidebar = Unrendered
    /\ layer = NoLayer
    /\ BoxIdle

(***************************************************************************)
(* Specifications                                                          *)
(***************************************************************************)
HookInit ==
    /\ generation = 1
    /\ req = [e \in Endpoints |-> Idle]
    /\ data = InitialData
    /\ hookpc = "init"

AppIdle ==
    /\ searchedLocation = JSNull
    /\ isSidebarOpen = FALSE
    /\ searchResult = JSNull

PipeInitAt(s) ==
    /\ graph = NoGraph
    /\ entrances = <<>>
    /\ tentative = <<>>
    /\ settled = <<>>
    /\ isochrone = <<>>
    /\ tractRes = <<>>
    /\ tractScore = <<>>
    /\ neighTracts = {}
    /\ neighScore = NotApplicable
    /\ neighFlag = FALSE
    /\ outline = "none"
    /\ stage = s

PipeIdle == PipeInitAt("idle")

Init == HookInit /\ AppIdle /\ PipeIdle /\ ViewIdle

Next ==
    \/ Mount /\ UNCHANGED <<appVars, pipeVars, viewVars>>
    \/ Publish /\ UNCHANGED <<appVars, pipeVars, viewVars>>
    \/ \E e \in Endpoints : Resolve(e) /\ UNCHANGED <<appVars, pipeVars, viewVars>>
    \/ \E e \in Endpoints : Reject(e) /\ UNCHANGED <<appVars, pipeVars, viewVars>>
    \/ Continue /\ UNCHANGED <<appVars, pipeVars, viewVars>>

Spec == Init /\ [][Next]_vars

\* The effect runs after the first render, every fetch settles, and the
\* continuation of a settled Promise.all runs; the backend need not republish
Fairness ==
    /\ WF_vars(Mount /\ UNCHANGED <<appVars, pipeVars, viewVars>>)
    /\ \A e \in Endpoints :
          WF_vars((Resolve(e) \/ Reject(e)) /\ UNCHANGED <<appVars, pipeVars, viewVars>>)
    /\ WF_vars(Continue /\ UNCHANGED <<appVars, pipeVars, viewVars>>)

LiveSpec == Init /\ [][Next]_vars /\ Fairness

SearchNext ==
    \/ LoadData /\ UNCHANGED <<appVars, pipeVars, viewVars>>
    \/ \E loc \in Locations : HandleLocationSelect(loc) /\ UNCHANGED <<hookVars, pipeVars, viewVars>>
    \/ ClearSearch /\ UNCHANGED <<hookVars, pipeVars, viewVars>>

SearchSpec == Init /\ [][SearchNext]_vars

PipelineNext ==
    \/ BuildGraph /\ UNCHANGED <<hookVars, appVars, viewVars>>
    \/ SampleEntrances /\ UNCHANGED <<hookVars, appVars, viewVars>>
    \/ \E p \in Parks : Visit(p) /\ UNCHANGED <<hookVars, appVars, viewVars>>
    \/ ReconstructAll /\ UNCHANGED <<hookVars, appVars, viewVars>>
    \/ LoadTracts /\ UNCHANGED <<hookVars, appVars, viewVars>>
    \/ ScoreTracts /\ UNCHANGED <<hookVars, appVars, viewVars>>
    \/ Aggregate /\ UNCHANGED <<hookVars, appVars, viewVars>>
    \/ FlagUnderserved /\ UNCHANGED <<hookVars, appVars, viewVars>>

PipelineInit == HookInit /\ AppIdle /\ PipeInitAt("start") /\ ViewIdle

PipelineSpec == PipelineInit /\ [][PipelineNext]_vars

TractInit == HookInit /\ AppIdle /\ PipeInitAt("tract_input") /\ ViewIdle

TractNext ==
    \/ LoadOverlay /\ UNCHANGED <<hookVars, appVars, viewVars>>
    \/ ScoreTracts /\ UNCHANGED <<hookVars, appVars, viewVars>>

TractSpec == TractInit /\ [][TractNext]_vars

NeighInit == HookInit /\ AppIdle /\ PipeInitAt("neigh_input") /\ ViewIdle

NeighNext ==
    \/ LoadNeighborhood /\ UNCHANGED <<hookVars, appVars, viewVars>>
    \/ Aggregate /\ UNCHANGED <<hookVars, appVars, viewVars>>
    \/ FlagUnderserved /\ UNCHANGED <<hookVars, appVars, viewVars>>
    \/ RenderOutline /\ UNCHANGED <<hookVars, appVars, viewVars>>

NeighSpec == NeighInit /\ [][NeighNext]_vars

SidebarNext ==
    \/ LoadDashboard /\ UNCHANGED <<appVars, pipeVars, viewVars>>
    \/ RenderSidebar /\ UNCHANGED <<hookVars, appVars, pipeVars, boxVars>>

SidebarSpec == Init /\ [][SidebarNext]_vars

ColorNext ==
    \/ \E score \in StyleInputs : StyleFeature(score) /\ UNCHANGED <<hookVars, appVars, pipeVars, boxVars>>
    \/ LegacyStyleFeature /\ UNCHANGED <<hookVars, appVars, pipeVars, boxVars>>

ColorSpec == Init /\ [][ColorNext]_vars

\* The dashboard is up: the four fetches succeeded and SearchBox is mounted
BoxInit ==
    /\ generation = 1
    /\ req = [e \in Endpoints |->
                 Response(TRUE, Artifact(e, 1, IF e = "tracts" THEN BoxTracts ELSE <<>>))]
    /\ data = FetchDataAfterAll(req, InitialData)
    /\ hookpc = "done"
    /\ AppIdle
    /\ PipeIdle
    /\ sidebar = Unrendered
    /\ layer = NoLayer
    /\ BoxMounted

BoxNext ==
    \/ \E text \in Texts : SetQuery(text) /\ UNCHANGED <<hookVars, appVars, pipeVars, sidebar, layer>>
    \/ ClearClick /\ UNCHANGED <<hookVars, appVars, pipeVars, sidebar, layer>>
    \/ Focus /\ UNCHANGED <<hookVars, appVars, pipeVars, sidebar, layer>>
    \/ ClickOutside /\ UNCHANGED <<hookVars, appVars, pipeVars, sidebar, layer>>
    \/ Tick /\ UNCHANGED <<hookVars, appVars, pipeVars, sidebar, layer>>
    \/ \E t \in timers : TimerFire(t) /\ UNCHANGED <<hookVars, appVars, pipeVars, sidebar, layer>>
    \/ \E i \in 1 .. MaxRequests : Respond(i) /\ UNCHANGED <<hookVars, appVars, pipeVars, sidebar, layer>>
    \/ \E i \in 1 .. MaxRequests : Fail(i) /\ UNCHANGED <<hookVars, appVars, pipeVars, sidebar, layer>>
    \/ \E k \in 1 .. 1 : HandleSelect(k) /\ UNCHANGED <<hookVars, pipeVars, sidebar, layer>>

BoxSpec == BoxInit /\ [][BoxNext]_vars

DashboardNext ==
    \/ LoadDashboard /\ UNCHANGED <<appVars, pipeVars, viewVars>>
    \/ RenderSidebar /\ UNCHANGED <<hookVars, appVars, pipeVars, boxVars>>
    \/ DrawTract(1) /\ UNCHANGED <<hookVars, appVars, pipeVars, boxVars>>
    \/ \E i \in 1 .. MaxNeigh : DrawNeighborhood(i) /\ UNCHANGED <<hookVars, appVars, pipeVars, boxVars>>
    \/ \E loc \in Locations : HandleLocationSelect(loc) /\ UNCHANGED <<hookVars, pipeVars, viewVars>>
    \/ ClearSearch /\ UNCHANGED <<hookVars, pipeVars, viewVars>>

DashboardSpec == Init /\ [][DashboardNext]_vars

(***************************************************************************)
(* Properties                                                              *)
(***************************************************************************)
Datasets(d) == {d.tracts, d.parks, d.neighborhoods, d.stats}
AllNull(d) == Datasets(d) = {JSNull}
AllStored(d) == JSNull \notin Datasets(d)

\* A request that was rejected, came back non-ok, or whose body does not parse
Failed(r) ==
    \/ r.st = "rejected"
    \/ r.st = "resolved" /\ (~r.ok \/ r.body = InvalidJson)

\* C1: the four datasets are all null or all stored; once fetchData has run
\* to its end with a failed request nothing is stored, error is set and
\* loading is false; the four are stored only when all four requests
\* succeeded, and then error is null and loading is false.
C1_AllOrNothing ==
    /\ AllNull(data) \/ AllStored(data)
    /\ (\E e \in Endpoints : Failed(req[e])) => AllNull(data)
    /\ (hookpc = "done" /\ \E e \in Endpoints : Failed(req[e]))
          => data.error # NoError /\ ~data.loading
    /\ AllStored(data) =>
          /\ data.error = NoError
          /\ ~data.loading
          /\ \A e \in Endpoints : req[e].st = "resolved" /\ ~Failed(req[e])
          /\ data = [tracts |-> req["tracts"].body, parks |-> req["parks"].body,
                     neighborhoods |-> req["neighborhoods"].body,
                     stats |-> req["stats"].body,
                     loading |-> FALSE, error |-> NoError]

\* C1 witness: one body failed to parse after the others had succeeded and
\* fetchData has finished
C1_Witness ==
    /\ hookpc = "done"
    /\ req["stats"].st = "resolved" /\ req["stats"].ok
    /\ req["stats"].body = InvalidJson
    /\ \A e \in Endpoints \ {"stats"} : req[e].st = "resolved" /\ ~Failed(req[e])

\* C2: the four datasets held by the dashboard come from one pipeline run.
C2_SameRun ==
    AllStored(data) =>
        \A x, y \in Datasets(data) : x.run = y.run

HasField(o, f) == f \in DOMAIN o

\* The integer nearest to n tenths, halves going up
Nearest(n) == CHOOSE r \in 0 .. 101 : 10 * r - 5 <= n /\ n < 10 * r + 5

\* C10: once a location is selected the search result is the rounded score of
\* the first tract, in features order, whose polygon contains the point, or
\* the outside-area error (without a score) when none does; a result never
\* has both a score and an error, and holds only the last selection.
C10_PersonalSearch ==
    /\ searchResult # JSNull =>
          ~(HasField(searchResult, "score") /\ HasField(searchResult, "error"))
    /\ searchedLocation # JSNull =>
          LET fs == data.tracts.features
              hits == {i \in 1 .. Len(fs) : searchedLocation.lat \in fs[i].polygon}
          IN  /\ searchResult # JSNull
              /\ searchResult.address = searchedLocation.address
              /\ hits = {} =>
                    searchResult = [error |-> OutsideMsg,
                                    address |-> searchedLocation.address]
              /\ hits # {} =>
                    LET first == CHOOSE i \in hits : \A j \in hits : i <= j
                        s == fs[first].accessibility_score
                    IN  /\ DOMAIN searchResult = {"score", "isWalkable", "address"}
                        /\ IsNum(s) => searchResult.score = Num(10 * Nearest(s.v))

\* C10 witness: two tracts contain the selected point, the first scores 49.5
\* and the result shows 50
C10_Witness ==
    /\ searchedLocation # JSNull
    /\ Len(data.tracts.features) = 2
    /\ \A i \in 1 .. 2 : searchedLocation.lat \in data.tracts.features[i].polygon
    /\ data.tracts.features[1].accessibility_score = Num(495)
    /\ data.tracts.features[2].accessibility_score = Num(1000)
    /\ searchResult.score = Num(500)

\* The (node, time) pairs of the walks of at most k edges that start at a
\* node of E and take at most 900 s
RECURSIVE Walks(_, _, _)
Walks(g, E, k) ==
    IF k = 0 THEN {<<e, 0>> : e \in E}
    ELSE LET W == Walks(g, E, k - 1) IN
         W \cup UNION {{<<u, w[2] + g.cost[{w[1], u}]>> :
                           u \in {v \in Neighbors(g, w[1]) :
                                     w[2] + g.cost[{w[1], v}] <= 900}} : w \in W}

\* The nodes whose minimum walking time from a node of E is at most 900 s
\* (a shortest walk never repeats a node)
WithinBudget(g, E) == {w[1] : w \in Walks(g, E, Cardinality(g.nodes))}

\* The minimum walking time of n, for n within budget
MinTime(g, E, n) ==
    LET times == {w[2] : w \in {x \in Walks(g, E, Cardinality(g.nodes)) : x[1] = n}}
    IN  CHOOSE c \in times : \A x \in times : c <= x

Searching == stage \in {"reach", "isochrones", "overlay", "scored", "aggregated", "flagged"}
Reconstructed == stage \in {"isochrones", "overlay", "scored", "aggregated", "flagged"}
TractsScored == stage \in {"scored", "aggregated", "flagged", "rendered"}

\* The Reachability Engine has ended every park's search and hands the
\* ReachabilitySets to the Isochrone Reconstructor
ReachabilityProduced ==
    /\ stage \in {"reach", "isochrones"}
    /\ \A p \in Parks : SearchDone(p)

C4_OrderIndependent ==
    Searching =>
        \A p, q \in Parks :
            (SearchDone(p) /\ SearchDone(q) /\ entrances[p] = entrances[q])
                => settled[p] = settled[q]

\* C4 witness: both parks were seeded with the same two entrances, whose
\* visits tie at cost 0, and both searches reached every node
C4_Witness ==
    /\ stage = "reach"
    /\ entrances["A"] = entrances["B"]
    /\ Cardinality(entrances["A"]) = 2
    /\ \A p \in Parks : SearchDone(p) /\ settled[p] = Nodes

\* A park with one entrance from which no edge can be walked within the budget
IsolatedSingle(p) ==
    /\ Cardinality(entrances[p]) = 1
    /\ \A e \in entrances[p] : \A u \in Neighbors(graph, e) :
          graph.cost[{e, u}] > 900

C6_TractScore ==
    stage = "scored" =>
        \A t \in DOMAIN tractRes :
            LET area == tractRes[t]
                residential == SumOver(area, DOMAIN area)
                inside(P) ==
                    IF \A p \in P : isochrone[p].valid
                    THEN SumOver(area, {c \in DOMAIN area :
                                           \A p \in P : c \in isochrone[p].cells})
                    ELSE 0
                covered == inside({"A"}) + inside({"B"}) - inside({"A", "B"})
            IN  IF residential = 0
                THEN tractScore[t] = NotApplicable
                ELSE /\ Defined(tractScore[t])
                     /\ tractScore[t].num * residential = 100 * covered * tractScore[t].den
                     /\ 0 <= tractScore[t].num
                     /\ tractScore[t].num <= 100 * tractScore[t].den

\* C6 witness: isochrone A covers 40% of the residential area, B 70%, both
\* 30%, and the tract scores 80
C6_Witness ==
    /\ stage = "scored"
    /\ \A p \in Parks : isochrone[p].valid
    /\ tractRes["T1"] = [r \in Regions |->
                            IF r = {} THEN 2 ELSE IF r = {"A"} THEN 1
                            ELSE IF r = {"B"} THEN 4 ELSE 3]
    /\ tractScore["T1"] = Rat(80, 1)

RECURSIVE DenProduct(_)
DenProduct(D) ==
    IF D = {} THEN 1
    ELSE LET x == CHOOSE y \in D : TRUE IN tractScore[x].den * DenProduct(D \ {x})

\* C7: the neighborhood score is the sum of score x residential area over the
\* constituent tracts that have a score, divided by the sum of their
\* residential areas; a neighborhood none of whose tracts has a score is
\* not applicable.
C7_NeighScore ==
    stage \in {"aggregated", "flagged", "rendered"} =>
        LET D == {t \in neighTracts : Defined(tractScore[t])}
            P == DenProduct(D)
            weight == SumOver([t \in D |-> ResidentialArea(t)], D)
            weighted == SumOver([t \in D |->
                            tractScore[t].num * (P \div tractScore[t].den)
                                * ResidentialArea(t)], D)
        IN  IF D = {}
            THEN neighScore = NotApplicable
            ELSE /\ Defined(neighScore)
                 /\ neighScore.num * weight * P = neighScore.den * weighted

\* C7 witness: tracts scoring 80 and 40 with residential areas 1 and 3 give 50
C7_Witness ==
    /\ stage = "aggregated"
    /\ neighTracts = {1, 2}
    /\ tractScore[1] = Rat(80, 1) /\ ResidentialArea(1) = 1
    /\ tractScore[2] = Rat(40, 1) /\ ResidentialArea(2) = 3
    /\ neighScore = Rat(50, 1)

C8_Flagged ==
    /\ (stage \in {"flagged", "rendered"} /\ Defined(neighScore))
          => (neighFlag = TRUE <=> neighScore.num < 50 * neighScore.den)
    /\ stage = "rendered" => (outline = "#ef4444" <=> neighFlag = TRUE)

\* C8: a neighborhood with a score is flagged underserved exactly when the
\* score is below 50, the flag once set does not change, and the map draws
\* the red outline exactly when the flag is true.
C8_Underserved ==
    /\ []C8_Flagged
    /\ [][(stage \in {"flagged", "rendered"}) => (neighFlag' = neighFlag)]_vars

\* C8 witness: a neighborhood scoring exactly 50 is drawn without the red outline
C8_Witness ==
    /\ stage = "rendered"
    /\ neighScore = Rat(50, 1)
    /\ neighFlag = FALSE
    /\ outline = "#334155"

C11_Top5 ==
    sidebar.rendered =>
        IF data.neighborhoods = JSNull
        THEN sidebar.chartData = <<>>
        ELSE LET fs == data.neighborhoods.features
                 n == Len(fs)
                 chart == sidebar.chartData
                 listed == {chart[k].name : k \in 1 .. Len(chart)}
                 scoreOf(i) == fs[i].properties.neigh_accessibility_score
             IN  /\ Len(chart) = IF n < 5 THEN n ELSE 5
                 /\ \A k \in 1 .. Len(chart) - 1 : chart[k].score.v >= chart[k + 1].score.v
                 /\ Cardinality(listed) = Len(chart)
                 /\ \A k \in 1 .. Len(chart) :
                       /\ chart[k].name \in 1 .. n
                       /\ IsNum(scoreOf(chart[k].name)) =>
                             chart[k].score = Num(10 * Nearest(scoreOf(chart[k].name).v))
                 /\ \A i \in (1 .. n) \ listed :
                       IsNum(scoreOf(i)) =>
                           \A k \in 1 .. Len(chart) :
                               10 * Nearest(scoreOf(i).v) <= chart[k].score.v

\* C11 witness: six neighborhoods, the first and the third scoring 49.4 and
\* the others 49.5; the chart lists the four that round to 50 in file order,
\* then the first, and leaves the third out
C11_Witness ==
    /\ sidebar.rendered
    /\ data.neighborhoods # JSNull
    /\ Len(data.neighborhoods.features) = 6
    /\ \A i \in {1, 3} :
          data.neighborhoods.features[i].properties.neigh_accessibility_score = Num(494)
    /\ \A i \in {2, 4, 5, 6} :
          data.neighborhoods.features[i].properties.neigh_accessibility_score = Num(495)
    /\ sidebar.chartData =
          <<[name |-> 2, score |-> Num(500)], [name |-> 4, score |-> Num(500)],
            [name |-> 5, score |-> Num(500)], [name |-> 6, score |-> Num(500)],
            [name |-> 1, score |-> Num(490)]>>

\* C12: with a stats record loaded the metric of a rendered sidebar is
\* stats.total_neighborhoods, 0 included; the placeholder is shown only
\* without a stats record.
C12_Metric ==
    sidebar.rendered =>
        /\ data.stats # JSNull => sidebar.metric = data.stats.total_neighborhoods
        /\ sidebar.metric = Placeholder => data.stats = JSNull

NoScore(s) == s.t \in {"null", "undefined"}

\* C13: an entity whose score is null or undefined is never shown with a
\* number: not in the popup of its map layer, not in the result of an
\* address search that falls in it, and it is not an entry of the chart.
C13_NoScoreNotNumeric ==
    /\ (layer.kind # "none" /\ NoScore(layer.score)) => ~IsNum(layer.popup.score)
    /\ searchedLocation # JSNull =>
          LET fs == data.tracts.features
              hits == {i \in 1 .. Len(fs) : searchedLocation.lat \in fs[i].polygon}
          IN  \A i \in hits :
                  ((\A j \in hits : i <= j) /\ NoScore(fs[i].accessibility_score))
                      => ~IsNum(searchResult.score)
    /\ (sidebar.rendered /\ data.neighborhoods # JSNull) =>
          \A k \in 1 .. Len(sidebar.chartData) :
              ~NoScore(data.neighborhoods.features[sidebar.chartData[k].name]
                           .properties.neigh_accessibility_score)

\* How dark a colour of the ramp is: its place in the legend
Darkness(c) == CHOOSE b \in 1 .. Len(Legend) : Legend[b].color = c

\* C15: a feature scoring s in 0..100 is filled with the colour of the legend
\* band that contains s, the bands being [0,20), [20,40), [40,60), [60,80)
\* and [80,100]; null and undefined are filled '#dddddd'; no lower score gets
\* a darker band; and the earlier Map component fills it the same.
C15_Colour ==
    layer.kind \in {"styled", "both"} =>
        /\ NoScore(layer.score) => layer.fillColor = "#dddddd"
        /\ IsNum(layer.score) =>
              /\ \E b \in 1 .. Len(Legend) :
                    /\ 10 * Legend[b].lo <= layer.score.v
                    /\ \/ layer.score.v < 10 * Legend[b].hi
                       \/ b = Len(Legend) /\ layer.score.v = 10 * Legend[b].hi
                    /\ layer.fillColor = Legend[b].color
              /\ \A t \in 0 .. layer.score.v :
                    Darkness(getColor(Num(t))) <= Darkness(layer.fillColor)
        /\ layer.kind = "both" => layer.legacyFill = layer.fillColor

\* C15 witness: both components fill a feature scoring exactly 20 with the
\* colour of the band 20 - 40
C15_Witness ==
    /\ layer.kind = "both"
    /\ layer.score = Num(200)
    /\ layer.fillColor = "#c2e699"

\* C16: with every request settling, loading eventually is false and stays
\* false; once false it never turns true; once the requests are issued none
\* is issued again and an error, once set, stays with the data as they are;
\* fetchData ends with loading false; and the dashboard is rendered only with
\* loading false and error null.
C16_Terminates ==
    /\ <>[](~data.loading)
    /\ [][~data.loading => ~data'.loading]_vars
    /\ [][hookpc # "init" =>
             \A e \in Endpoints : req'[e] = Pending => req[e] = Pending]_vars
    /\ [][data.error # NoError => data' = data]_vars
    /\ [](hookpc = "done" => ~data.loading)
    /\ [](Rendered = "dashboard" =>
             (~data.loading /\ data.error = NoError /\ hookpc = "done"))

\* C16 witness: one fetch was rejected and fetchData ended with the error
\* while another fetch, still pending then, resolved afterwards
C16_Witness ==
    /\ hookpc = "done"
    /\ ~data.loading
    /\ data.error = FetchFailedMsg
    /\ Cardinality({e \in Endpoints : req[e] = Rejected}) = 1
    /\ \A e \in Endpoints : req[e] # Pending

\* C14: at most one timer is pending and it is for the current query; every
\* change of the query leaves exactly the timer armed by that change, with
\* 500 ms to run, and issues no request; a request is issued one at a time,
\* for the current query, only after 500 ms without a change and only for a
\* query of more than 3 characters, and it uses up the timer, so a burst of
\* edits issues at most one request, for the final text; a timer that runs
\* out without a request does so after 500 ms without a change on a query of
\* 3 characters or fewer, and empties the suggestions.
C14_Debounce ==
    /\ [](Cardinality(timers) <= 1)
    /\ [](\A t \in timers : t.text = query)
    /\ [][query' # query =>
             /\ timers' = {[text |-> query', left |-> 500]}
             /\ Len(requests') = Len(requests)]_vars
    /\ [][Len(requests') > Len(requests) =>
             /\ Len(requests') = Len(requests) + 1
             /\ requests'[Len(requests')] = [text |-> query, st |-> "pending"]
             /\ query' = query
             /\ quiet >= 500
             /\ Length(query) > 3
             /\ timers # {}
             /\ timers' = {}]_vars
    /\ [][(timers # {} /\ timers' = {} /\ Len(requests') = Len(requests)) =>
             /\ query' = query
             /\ quiet >= 500
             /\ Length(query) <= 3
             /\ suggestions' = <<>>]_vars

\* C14 witness: after edits that ended on "Riverside, CA" and 500 ms of
\* quiet, the one request issued is for that text and no timer is pending
C14_Witness ==
    /\ lastInput = "edit"
    /\ query = "Riverside, CA"
    /\ quiet = 500
    /\ timers = {}
    /\ requests = <<[text |-> "Riverside, CA", st |-> "pending"]>>

\* C17: once no request is in flight and the most recently issued one has
\* been answered, a suggestion list that is not empty holds the results of
\* that request; and after the user cleared the query the list stays empty
\* and closed until the next input.
C17_LatestWins ==
    /\ ( /\ Len(requests) > 0
         /\ \A i \in 1 .. Len(requests) : requests[i].st # "pending"
         /\ requests[Len(requests)].st = "done"
         /\ suggestions # <<>> )
          => suggestions = Geocode(requests[Len(requests)].text)
    /\ lastInput = "clear" => (suggestions = <<>> /\ ~ListVisible)

\* C18: from the selection of a suggestion until the user's next input to the
\* box the list is not visible and no geocoding request is issued; and the
\* searched location changes only in the step of a click on the visible list.
C18_StaysHidden ==
    /\ [][lastInput' = "select" =>
             /\ ~ListVisible'
             /\ lastInput = "select" => Len(requests') = Len(requests)]_vars
    /\ [][searchedLocation' # searchedLocation =>
             (ListVisible /\ ~ListVisible' /\ lastInput' = "select")]_vars

====
